---- MODULE Spec2Model ----
(***************************************************************************)
(* Model of containerd-shim-spin/src/layers.rs: compose_and_precompile,    *)
(* locked_app_from_layers, find_spin_app_layer and ComponentSourceLoader.  *)
(* Layer indices are 0-based as in the Rust code; layers[i + 1] is the     *)
(* layer with index i.                                                     *)
(***************************************************************************)
EXTENDS Naturals, Sequences, FiniteSets, TLC

VARIABLES layers, fault, pc, locked_parent_idx, locked_app, ci, parents,
          mutex, calls, composed, precompiled, snapshot, precompiled_layers,
          result, run, first, stage_log

\* layers              the input slice (layers.rs:16), never written
\* fault               what the engines and the encoder do on this input
\* pc                  position of compose_and_precompile
\* locked_parent_idx,
\* locked_app          the locals of line 17; locked_app is mutated in place
\* ci                  number of components the loop has finished
\* parents, mutex      the Arc<Mutex<BTreeSet<usize>>> of the current loader
\* calls               the load_component_source invocations of the engine
\* composed,
\* precompiled,
\* snapshot            the locals of lines 24, 33 and 39
\* precompiled_layers  the vector of line 19
\* result              what the caller has received
\* run, first          the number of the call and the first call's result
\* stage_log           the stages the call has executed so far, in order
vars == <<layers, fault, pc, locked_parent_idx, locked_app, ci, parents,
          mutex, calls, composed, precompiled, snapshot, precompiled_layers,
          result, run, first, stage_log>>

\* ---------------------------------------------------------------- bounds
MaxLayers == 3
MaxComponents == 2

\* ------------------------------------------------------------- constants
SPIN_APPLICATION_MEDIA_TYPE == "application/vnd.fermyon.spin.application.v1+config"
OCI_LAYER_MEDIA_TYPE_WASM == "application/vnd.wasm.content.layer.v1+wasm"

ComponentIds == <<"main", "aux", "extra", "more">>
\* The order in which the composition engine reports on the sources it
\* asked for: the component's own source, then the dependencies by name.
CallOrder == <<"source", "libfoo">>
DepNames == {CallOrder[k] : k \in 2..Len(CallOrder)}
InputDigests == {"sha256:d1", "sha256:d2"}
ManifestDigest == "sha256:m"

\* Option<T> is a sequence of length 0 (None) or 1 (Some).
None == <<>>
Some(x) == <<x>>
IsSome(o) == Len(o) = 1
Unwrap(o) == o[1]

NoDeps == [n \in {} |-> None]

\* ------------------------------------------------------ external codecs
\* LockedApp::to_json / LockedApp::from_json: a json document wraps the
\* component list; bytes of any other format do not decode.
ToJson(app) == [fmt |-> "json", doc |-> app]
CanFromJson(bytes) == bytes.fmt = "json"
FromJson(bytes) == bytes.doc

\* spin_componentize::componentize_if_necessary: a raw module is promoted to
\* a component, a component is returned as it is, anything else is an error.
CanComponentize(bytes) == bytes.fmt \in {"wasm-module", "wasm-component"}
ComponentizeIfNecessary(bytes) ==
    IF bytes.fmt = "wasm-module"
    THEN [fmt |-> "wasm-component", doc |-> <<"componentized", bytes.doc>>]
    ELSE bytes

\* spin_compose::compose on the bytes the loader returned.
Compose(loaded) ==
    IF DOMAIN loaded = {"source"}
    THEN loaded["source"]
    ELSE [fmt |-> "wasm-component", doc |-> <<"composed", loaded>>]

\* wasmtime::Engine::precompile_component
PrecompileComponent(bytes) == [fmt |-> "cwasm", doc |-> bytes]

\* format!("sha256:{}", sha256::hex_digest_from_bytes(..))
Sha256Digest(bytes) == [alg |-> "sha256", hex |-> bytes]

\* ---------------------------------------------------------------- inputs
SourceDigests == {"sha256:d1"}
SourceOptions == {None} \cup {Some(d) : d \in SourceDigests}
DependencyMaps ==
    UNION {[S -> {[source |-> [digest |-> Some(d)]] : d \in InputDigests}]
           : S \in SUBSET DepNames}

ComponentAt(i, src, deps) ==
    [id |-> ComponentIds[i], source |-> [digest |-> src], dependencies |-> deps]

\* The one binding given to a component whose source has no digest field.
LibfooToD1 == [n \in DepNames |-> [source |-> [digest |-> Some("sha256:d1")]]]

\* The components a manifest may list at position i: one without a digest
\* (bound to d1), or one with a digest and any dependency map.
ComponentsAt(i) ==
    {ComponentAt(i, None, LibfooToD1)}
    \cup {ComponentAt(i, s, d) : s \in SourceOptions \ {None}, d \in DependencyMaps}

RECURSIVE ManifestsOfLen(_)
ManifestsOfLen(n) ==
    IF n = 0 THEN {<<>>}
    ELSE {Append(m, c) : m \in ManifestsOfLen(n - 1), c \in ComponentsAt(n)}

Manifests == UNION {ManifestsOfLen(n) : n \in 0..MaxComponents}

WasmLayer(digest, fmt, doc) ==
    [media_type |-> OCI_LAYER_MEDIA_TYPE_WASM, digest |-> digest,
     layer |-> [fmt |-> fmt, doc |-> doc]]

\* Two layers may carry one digest with different bytes: config.digest() is
\* taken from the descriptor, it is not recomputed from the bytes.
WasmLayers ==
    {WasmLayer("sha256:d1", "wasm-module", "a"),
     WasmLayer("sha256:d2", "wasm-component", "c"),
     WasmLayer("sha256:d2", "garbage", "x")}

ManifestLayers(app) ==
    {[media_type |-> SPIN_APPLICATION_MEDIA_TYPE, digest |-> ManifestDigest,
      layer |-> ToJson(app)],
     [media_type |-> SPIN_APPLICATION_MEDIA_TYPE, digest |-> ManifestDigest,
      layer |-> [fmt |-> "garbage", doc |-> "x"]]}

LayerLists(app) ==
    UNION {[1..n -> WasmLayers \cup ManifestLayers(app)] : n \in 0..MaxLayers}

\* Outcome of the two engines and of the encoder for this run's input: the
\* composition engine rejects component `at` (cycle, unresolved import), the
\* precompilation engine rejects component `at`, or to_json fails.
NoFault == [stage |-> "none", at |-> 0]
FaultsFor(n) ==
    {NoFault, [stage |-> "encode", at |-> 0]}
    \cup {[stage |-> s, at |-> k] :
            s \in {"compose", "precompile"}, k \in 0..(n - 1)}

\* ------------------------------------------------------- pure functions
\* find_spin_app_layer: the scan of layers.iter().enumerate() from index i.
RECURSIVE FindSpinAppLayerFrom(_, _)
FindSpinAppLayerFrom(ls, i) ==
    IF i >= Len(ls) THEN None
    ELSE IF ls[i + 1].media_type = SPIN_APPLICATION_MEDIA_TYPE
         THEN Some([idx |-> i, layer |-> ls[i + 1]])
         ELSE FindSpinAppLayerFrom(ls, i + 1)

RECURSIVE FindSpinAppLayerLastFrom(_, _)
FindSpinAppLayerLastFrom(ls, n) ==
    IF n = 0 THEN None
    ELSE IF ls[n].media_type = SPIN_APPLICATION_MEDIA_TYPE
         THEN Some([idx |-> n - 1, layer |-> ls[n]])
         ELSE FindSpinAppLayerLastFrom(ls, n - 1)

FindSpinAppLayerLast(ls) == FindSpinAppLayerLastFrom(ls, Len(ls))

FindSpinAppLayer(ls) == FindSpinAppLayerFrom(ls, 0)

\* ComponentSourceLoader::find_layer_by_digest: the same scan on the digest.
RECURSIVE FindLayerByDigestFrom(_, _, _)
FindLayerByDigestFrom(ls, digest, i) ==
    IF i >= Len(ls) THEN None
    ELSE IF ls[i + 1].digest = digest
         THEN Some([idx |-> i, layer |-> ls[i + 1]])
         ELSE FindLayerByDigestFrom(ls, digest, i + 1)

RECURSIVE FindLayerByDigestLastFrom(_, _, _)
FindLayerByDigestLastFrom(ls, digest, n) ==
    IF n = 0 THEN None
    ELSE IF ls[n].digest = digest
         THEN Some([idx |-> n - 1, layer |-> ls[n]])
         ELSE FindLayerByDigestLastFrom(ls, digest, n - 1)

FindLayerByDigestLast(ls, digest) == FindLayerByDigestLastFrom(ls, digest, Len(ls))

FindLayerByDigestOrFirst(ls, digest) ==
    LET found == FindLayerByDigestFrom(ls, digest, 0) IN
    IF IsSome(found) \/ Len(ls) = 0 THEN found
    ELSE Some([idx |-> 0, layer |-> ls[1]])

FindLayerByDigest(ls, digest) == FindLayerByDigestFrom(ls, digest, 0)

\* The faults that can show on this input: the engines and the encoder are
\* only reached when the located manifest decodes, and only for the
\* components it lists.
RelevantFaults(ls) ==
    LET found == FindSpinAppLayer(ls) IN
    IF IsSome(found) /\ CanFromJson(Unwrap(found).layer.layer)
    THEN FaultsFor(Len(FromJson(Unwrap(found).layer.layer)))
    ELSE {NoFault}

\* ------------------------------------------------------- loader requests
\* The sources the composition engine asks the loader for while composing
\* one component: the component's own source and every dependency's source.
NewCall(src) ==
    [source |-> src, pc |-> "idle", idx |-> None, bytes |-> None, err |-> "none"]

CallsFor(component) ==
    [c \in {"source"} \cup DOMAIN component.dependencies |->
        IF c = "source" THEN NewCall(component.source)
        ELSE NewCall(component.dependencies[c].source)]

NoCalls == [c \in {} |-> NewCall([digest |-> None])]

\* ------------------------------------------------------------- outcomes
Running == [status |-> "running", layers |-> <<>>, kind |-> "none", component |-> "none"]
Ok(out) == [status |-> "ok", layers |-> out, kind |-> "none", component |-> "none"]
ErrPartial(kind, id) ==
    [status |-> "err", layers |-> precompiled_layers, kind |-> kind, component |-> id]

Err(kind, id) == [status |-> "err", layers |-> <<>>, kind |-> kind, component |-> id]

PrecompiledLayer(media_type, bytes, ps) ==
    [media_type |-> media_type, bytes |-> bytes, parents |-> ps]

\* ------------------------------------------------------------------ Init
Init ==
    /\ \E app \in Manifests : layers \in LayerLists(app)
    /\ fault \in RelevantFaults(layers)
    /\ pc = "locate"
    /\ locked_parent_idx = 0
    /\ locked_app = <<>>
    /\ ci = 0
    /\ parents = {}
    /\ mutex = "free"
    /\ calls = NoCalls
    /\ composed = None
    /\ precompiled = None
    /\ snapshot = {}
    /\ precompiled_layers = <<>>
    /\ result = Running
    /\ run = 1
    /\ first = Running
    /\ stage_log = <<>>

Fail(kind, id) ==
    /\ pc' = "failed"
    /\ result' = Err(kind, id)

\* --------------------------------------------------------------- actions
\* locked_app_from_layers, first statement: find_spin_app_layer(..).ok_or_else
Locate ==
    /\ pc = "locate"
    /\ LET found == FindSpinAppLayer(layers) IN
         IF IsSome(found)
         THEN /\ locked_parent_idx' = Unwrap(found).idx
              /\ pc' = "decode"
              /\ UNCHANGED result
         ELSE /\ Fail("ManifestNotFound", "none")
              /\ UNCHANGED locked_parent_idx
    /\ stage_log' = Append(stage_log, <<"Locate", 0>>)
    /\ UNCHANGED <<layers, fault, locked_app, ci, parents, mutex, calls,
                   composed, precompiled, snapshot, precompiled_layers, run, first>>

\* locked_app_from_layers, second statement: LockedApp::from_json(..)?
Decode ==
    /\ pc = "decode"
    /\ LET bytes == layers[locked_parent_idx + 1].layer IN
         IF CanFromJson(bytes)
         THEN /\ locked_app' = FromJson(bytes)
              /\ pc' = "loop"
              /\ UNCHANGED result
         ELSE /\ Fail("ManifestDecodeError", "none")
              /\ UNCHANGED locked_app
    /\ stage_log' = Append(stage_log, <<"Decode", 0>>)
    /\ UNCHANGED <<layers, fault, locked_parent_idx, ci, parents, mutex, calls,
                   composed, precompiled, snapshot, precompiled_layers, run, first>>

NextComponentSharedParents ==
    /\ pc = "loop"
    /\ ci < Len(locked_app)
    /\ mutex' = "free"
    /\ calls' = CallsFor(locked_app[ci + 1])
    /\ pc' = "compose"
    /\ UNCHANGED <<layers, fault, locked_parent_idx, locked_app, ci, parents,
                   composed, precompiled, snapshot, precompiled_layers, result,
                   run, first,
                   stage_log>>

\* for component in locked_app.components.iter_mut(): the next component gets
\* ComponentSourceLoader::new(layers) and spin_compose::compose is entered.
NextComponent ==
    /\ pc = "loop"
    /\ ci < Len(locked_app)
    /\ parents' = {}
    /\ mutex' = "free"
    /\ calls' = CallsFor(locked_app[ci + 1])
    /\ pc' = "compose"
    /\ UNCHANGED <<layers, fault, locked_parent_idx, locked_app, ci, composed,
                   precompiled, snapshot, precompiled_layers, result, run, first,
                   stage_log>>

LoadResolveEagerInsert(c) ==
    /\ pc = "compose"
    /\ c \in DOMAIN calls
    /\ calls[c].pc = "idle"
    /\ LET digest == calls[c].source.digest
           found == FindLayerByDigest(layers, Unwrap(digest))
       IN  /\ calls' = [calls EXCEPT ![c] =
                 IF ~IsSome(digest)
                 THEN [@ EXCEPT !.pc = "err", !.err = "MissingDigest"]
                 ELSE IF ~IsSome(found)
                 THEN [@ EXCEPT !.pc = "err", !.err = "DigestNotFound"]
                 ELSE IF ~CanComponentize(Unwrap(found).layer.layer)
                 THEN [@ EXCEPT !.pc = "err", !.err = "ComponentizeError"]
                 ELSE [@ EXCEPT !.pc = "ok", !.idx = Some(Unwrap(found).idx),
                                !.bytes = Some(ComponentizeIfNecessary(Unwrap(found).layer.layer))]]
           /\ parents' = IF IsSome(digest) /\ IsSome(found)
                         THEN parents \cup {Unwrap(found).idx}
                         ELSE parents
    /\ stage_log' = Append(stage_log, <<"Load", ci>>)
    /\ UNCHANGED <<layers, fault, pc, locked_parent_idx, locked_app, ci,
                   mutex, composed, precompiled, snapshot, precompiled_layers,
                   result, run, first>>

\* load_component_source up to the insert: digest field, find_layer_by_digest,
\* componentize_if_necessary. All of it reads immutable data only.
LoadResolve(c) ==
    /\ pc = "compose"
    /\ c \in DOMAIN calls
    /\ calls[c].pc = "idle"
    /\ LET digest == calls[c].source.digest
           found == FindLayerByDigest(layers, Unwrap(digest))
       IN  calls' = [calls EXCEPT ![c] =
             IF ~IsSome(digest)
             THEN [@ EXCEPT !.pc = "err", !.err = "MissingDigest"]
             ELSE IF ~IsSome(found)
             THEN [@ EXCEPT !.pc = "err", !.err = "DigestNotFound"]
             ELSE IF ~CanComponentize(Unwrap(found).layer.layer)
             THEN [@ EXCEPT !.pc = "err", !.err = "ComponentizeError"]
             ELSE [@ EXCEPT !.pc = "lock", !.idx = Some(Unwrap(found).idx),
                            !.bytes = Some(ComponentizeIfNecessary(Unwrap(found).layer.layer))]]
    /\ stage_log' = Append(stage_log, <<"Load", ci>>)
    /\ UNCHANGED <<layers, fault, pc, locked_parent_idx, locked_app, ci, parents,
                   mutex, composed, precompiled, snapshot, precompiled_layers,
                   result, run, first>>

LoadLockUnguarded(c) ==
    /\ pc = "compose"
    /\ c \in DOMAIN calls
    /\ calls[c].pc = "lock"
    /\ mutex' = c
    /\ calls' = [calls EXCEPT ![c].pc = "insert"]
    /\ UNCHANGED <<layers, fault, pc, locked_parent_idx, locked_app, ci, parents,
                   composed, precompiled, snapshot, precompiled_layers, result,
                   run, first,
                   stage_log>>

\* self.parents.lock(): the invocation waits until the mutex is free.
LoadLock(c) ==
    /\ pc = "compose"
    /\ c \in DOMAIN calls
    /\ calls[c].pc = "lock"
    /\ mutex = "free"
    /\ mutex' = c
    /\ calls' = [calls EXCEPT ![c].pc = "insert"]
    /\ UNCHANGED <<layers, fault, pc, locked_parent_idx, locked_app, ci, parents,
                   composed, precompiled, snapshot, precompiled_layers, result,
                   run, first,
                   stage_log>>

InsertFirstOnly(set, idx) == IF set = {} THEN {idx} ELSE set

\* BTreeSet::insert under the guard
Insert(set, idx) == set \cup {idx}

LoadInsertPosition(c) ==
    /\ pc = "compose"
    /\ c \in DOMAIN calls
    /\ calls[c].pc = "insert"
    /\ mutex = c
    /\ parents' = Insert(parents, Unwrap(calls[c].idx) + 1)
    /\ mutex' = "free"
    /\ calls' = [calls EXCEPT ![c].pc = "ok"]
    /\ UNCHANGED <<layers, fault, pc, locked_parent_idx, locked_app, ci,
                   composed, precompiled, snapshot, precompiled_layers, result,
                   run, first,
                   stage_log>>

\* .insert(idx) on the guard, the guard is dropped, Ok(component.into())
LoadInsert(c) ==
    /\ pc = "compose"
    /\ c \in DOMAIN calls
    /\ calls[c].pc = "insert"
    /\ mutex = c
    /\ parents' = Insert(parents, Unwrap(calls[c].idx))
    /\ mutex' = "free"
    /\ calls' = [calls EXCEPT ![c].pc = "ok"]
    /\ UNCHANGED <<layers, fault, pc, locked_parent_idx, locked_app, ci,
                   composed, precompiled, snapshot, precompiled_layers, result,
                   run, first,
                   stage_log>>

FirstId == locked_app[1].id

CurrentId == locked_app[ci + 1].id

\* compose(..).await returns Err because a loader invocation returned Err:
\* the engine is deterministic, it reports the first source in its order
\* that failed to load, however the invocations interleaved, and it returns
\* when none of its invocations is inside load_component_source (the body
\* has no await: an invocation that started runs to its return).
\* with_context tags the error with the component id and `?` returns it.
ComposeLoadError ==
    /\ pc = "compose"
    /\ \E k \in 1..Len(CallOrder) :
         /\ CallOrder[k] \in DOMAIN calls
         /\ calls[CallOrder[k]].pc = "err"
         /\ \A j \in 1..(k - 1) :
               CallOrder[j] \in DOMAIN calls => calls[CallOrder[j]].pc = "ok"
         /\ \A c \in DOMAIN calls : calls[c].pc \in {"idle", "ok", "err"}
         /\ Fail(calls[CallOrder[k]].err, CurrentId)
    /\ UNCHANGED <<layers, fault, locked_parent_idx, locked_app, ci, parents,
                   mutex, calls, composed, precompiled, snapshot,
                   precompiled_layers, run, first,
                   stage_log>>

ComposeReturnRetry ==
    /\ pc = "compose"
    /\ \A c \in DOMAIN calls : calls[c].pc = "ok"
    /\ IF fault.stage = "compose" /\ fault.at = ci
       THEN /\ calls' = CallsFor(locked_app[ci + 1])
            /\ UNCHANGED <<composed, pc, result>>
       ELSE /\ composed' = Some(Compose([c \in DOMAIN calls |-> Unwrap(calls[c].bytes)]))
            /\ pc' = "precompile"
            /\ UNCHANGED <<calls, result>>
    /\ stage_log' = Append(stage_log, <<"Compose", ci>>)
    /\ UNCHANGED <<layers, fault, locked_parent_idx, locked_app, ci, parents,
                   mutex, precompiled, snapshot, precompiled_layers,
                   run, first>>

\* compose(..).await once every source has been loaded: the engine links
\* them, or rejects the component.
ComposeReturn ==
    /\ pc = "compose"
    /\ \A c \in DOMAIN calls : calls[c].pc = "ok"
    /\ IF fault.stage = "compose" /\ fault.at = ci
       THEN /\ Fail("CompositionError", CurrentId)
            /\ UNCHANGED composed
       ELSE /\ composed' = Some(Compose([c \in DOMAIN calls |-> Unwrap(calls[c].bytes)]))
            /\ pc' = "precompile"
            /\ UNCHANGED result
    /\ stage_log' = Append(stage_log, <<"Compose", ci>>)
    /\ UNCHANGED <<layers, fault, locked_parent_idx, locked_app, ci, parents,
                   mutex, calls, precompiled, snapshot, precompiled_layers,
                   run, first>>

\* precompile_engine.precompile_component(&composed)?
Precompile ==
    /\ pc = "precompile"
    /\ IF fault.stage = "precompile" /\ fault.at = ci
       THEN /\ Fail("PrecompilationError", "none")
            /\ UNCHANGED precompiled
       ELSE /\ precompiled' = Some(PrecompileComponent(Unwrap(composed)))
            /\ pc' = "digest"
            /\ UNCHANGED result
    /\ stage_log' = Append(stage_log, <<"Precompile", ci>>)
    /\ UNCHANGED <<layers, fault, locked_parent_idx, locked_app, ci, parents,
                   mutex, calls, composed, snapshot, precompiled_layers,
                   run, first>>

\* component.source.content.digest.replace(precompiled_digest.clone())
ReplaceDigest ==
    /\ pc = "digest"
    /\ locked_app' = [locked_app EXCEPT ![ci + 1].source.digest =
                        Some(Sha256Digest(Unwrap(precompiled)))]
    /\ pc' = "parents"
    /\ stage_log' = Append(stage_log, <<"Rewrite", ci>>)
    /\ UNCHANGED <<layers, fault, locked_parent_idx, ci, parents, mutex, calls,
                   composed, precompiled, snapshot, precompiled_layers, result,
                   run, first>>

\* loader.parents.lock(): the driver waits until the mutex is free.
SnapshotLock ==
    /\ pc = "parents"
    /\ mutex = "free"
    /\ mutex' = "driver"
    /\ pc' = "snapshot"
    /\ UNCHANGED <<layers, fault, locked_parent_idx, locked_app, ci, parents,
                   calls, composed, precompiled, snapshot, precompiled_layers,
                   result, run, first,
                   stage_log>>

SnapshotParentsKeepsGuard ==
    /\ pc = "snapshot"
    /\ mutex = "driver"
    /\ snapshot' = parents
    /\ pc' = "clear"
    /\ UNCHANGED <<layers, fault, locked_parent_idx, locked_app, ci, parents,
                   mutex, calls, composed, precompiled, precompiled_layers,
                   result, run, first,
                   stage_log>>

\* let parents = <guard>.clone(); the guard is dropped with the statement.
SnapshotParents ==
    /\ pc = "snapshot"
    /\ mutex = "driver"
    /\ snapshot' = parents
    /\ mutex' = "free"
    /\ pc' = "clear"
    /\ UNCHANGED <<layers, fault, locked_parent_idx, locked_app, ci, parents,
                   calls, composed, precompiled, precompiled_layers,
                   result, run, first,
                   stage_log>>

ClearDependenciesSkipped ==
    /\ pc = "clear"
    /\ pc' = "push"
    /\ UNCHANGED <<layers, fault, locked_parent_idx, locked_app, ci, parents,
                   mutex, calls, composed, precompiled, snapshot,
                   precompiled_layers, result, run, first,
                   stage_log>>

\* component.dependencies.clear()
ClearDependencies ==
    /\ pc = "clear"
    /\ locked_app' = [locked_app EXCEPT ![ci + 1].dependencies = NoDeps]
    /\ pc' = "push"
    /\ UNCHANGED <<layers, fault, locked_parent_idx, ci, parents, mutex, calls,
                   composed, precompiled, snapshot, precompiled_layers, result,
                   run, first,
                   stage_log>>

PushLayerNoParents ==
    /\ pc = "push"
    /\ precompiled_layers' = Append(precompiled_layers,
          PrecompiledLayer(OCI_LAYER_MEDIA_TYPE_WASM, Unwrap(precompiled), {}))
    /\ ci' = ci + 1
    /\ pc' = "loop"
    /\ stage_log' = Append(stage_log, <<"Emit", ci>>)
    /\ UNCHANGED <<layers, fault, locked_parent_idx, locked_app, parents, mutex,
                   calls, composed, precompiled, snapshot, result, run, first>>

PushLayerComposed ==
    /\ pc = "push"
    /\ precompiled_layers' = Append(precompiled_layers,
          PrecompiledLayer(OCI_LAYER_MEDIA_TYPE_WASM, Unwrap(composed), snapshot))
    /\ ci' = ci + 1
    /\ pc' = "loop"
    /\ stage_log' = Append(stage_log, <<"Emit", ci>>)
    /\ UNCHANGED <<layers, fault, locked_parent_idx, locked_app, parents, mutex,
                   calls, composed, precompiled, snapshot, result, run, first>>

\* precompiled_layers.push(PrecompiledLayer { .. }) and the end of the loop body
PushLayer ==
    /\ pc = "push"
    /\ precompiled_layers' = Append(precompiled_layers,
          PrecompiledLayer(OCI_LAYER_MEDIA_TYPE_WASM, Unwrap(precompiled), snapshot))
    /\ ci' = ci + 1
    /\ pc' = "loop"
    /\ stage_log' = Append(stage_log, <<"Emit", ci>>)
    /\ UNCHANGED <<layers, fault, locked_parent_idx, locked_app, parents, mutex,
                   calls, composed, precompiled, snapshot, result, run, first>>

EncodeManifestLastParents ==
    /\ pc = "loop"
    /\ ci >= Len(locked_app)
    /\ IF fault.stage = "encode"
       THEN /\ Fail("ManifestEncodeError", "none")
            /\ UNCHANGED precompiled_layers
       ELSE /\ precompiled_layers' = Append(precompiled_layers,
                 PrecompiledLayer(SPIN_APPLICATION_MEDIA_TYPE, ToJson(locked_app),
                                  snapshot))
            /\ result' = Ok(precompiled_layers')
            /\ pc' = "done"
    /\ stage_log' = Append(stage_log, <<"Encode", ci>>)
    /\ UNCHANGED <<layers, fault, locked_parent_idx, locked_app, ci, parents,
                   mutex, calls, composed, precompiled, snapshot, run, first>>

\* After the loop: the manifest layer is pushed and Ok(precompiled_layers)
\* is returned, unless locked_app.to_json()? fails.
EncodeManifest ==
    /\ pc = "loop"
    /\ ci >= Len(locked_app)
    /\ IF fault.stage = "encode"
       THEN /\ Fail("ManifestEncodeError", "none")
            /\ UNCHANGED precompiled_layers
       ELSE /\ precompiled_layers' = Append(precompiled_layers,
                 PrecompiledLayer(SPIN_APPLICATION_MEDIA_TYPE, ToJson(locked_app),
                                  {locked_parent_idx}))
            /\ result' = Ok(precompiled_layers')
            /\ pc' = "done"
    /\ stage_log' = Append(stage_log, <<"Encode", ci>>)
    /\ UNCHANGED <<layers, fault, locked_parent_idx, locked_app, ci, parents,
                   mutex, calls, composed, precompiled, snapshot, run, first>>

Load == \E c \in {"source"} \cup DepNames : LoadResolve(c) \/ LoadLock(c) \/ LoadInsert(c)

Next ==
    \/ Locate
    \/ Decode
    \/ NextComponent
    \/ Load
    \/ ComposeLoadError
    \/ ComposeReturn
    \/ Precompile
    \/ ReplaceDigest
    \/ SnapshotLock
    \/ SnapshotParents
    \/ ClearDependencies
    \/ PushLayer
    \/ EncodeManifest

Spec == Init /\ [][Next]_vars

\* A second call of compose_and_precompile on the same layers with the same
\* engines: every local of the first call is gone, only its return value is
\* kept by the caller.
CallAgain ==
    /\ pc \in {"done", "failed"}
    /\ run = 1
    /\ run' = 2
    /\ first' = result
    /\ pc' = "locate"
    /\ result' = Running
    /\ locked_parent_idx' = 0
    /\ locked_app' = <<>>
    /\ ci' = 0
    /\ calls' = NoCalls
    /\ composed' = None
    /\ precompiled' = None
    /\ snapshot' = {}
    /\ precompiled_layers' = <<>>
    /\ stage_log' = <<>>
    /\ UNCHANGED <<layers, fault, parents, mutex>>

NextTwice == Next \/ CallAgain

SpecTwice == Init /\ [][NextTwice]_vars

TypeOK ==
    /\ pc \in {"locate", "decode", "loop", "compose", "precompile", "digest",
               "parents", "snapshot", "clear", "push", "done", "failed"}
    /\ ci \in 0..MaxComponents
    /\ Len(layers) <= MaxLayers
    /\ result.status \in {"running", "ok", "err"}

\* ------------------------------------------------- vocabulary of claims
\* The input read directly, without the scans of the code.
MinOf(S) == CHOOSE m \in S : \A x \in S : m <= x
TaggedIdx == {i \in 0..(Len(layers) - 1) :
                layers[i + 1].media_type = SPIN_APPLICATION_MEDIA_TYPE}
CarrierIdx(d) == {i \in 0..(Len(layers) - 1) : layers[i + 1].digest = d}
Decodable == TaggedIdx # {} /\ layers[MinOf(TaggedIdx) + 1].layer.fmt = "json"
OrigApp == layers[MinOf(TaggedIdx) + 1].layer.doc
Terminated == pc \in {"done", "failed"}

\* The digest options a component declares: its source and its bindings.
Refs(comp) ==
    {comp.source.digest}
    \cup {comp.dependencies[n].source.digest : n \in DOMAIN comp.dependencies}
DeclaredDigests(comp) == {Unwrap(o) : o \in {r \in Refs(comp) : IsSome(r)}}
BindingDigests(comp) ==
    {Unwrap(comp.dependencies[n].source.digest) : n \in DOMAIN comp.dependencies}
Normalizes(d) ==
    /\ CarrierIdx(d) # {}
    /\ layers[MinOf(CarrierIdx(d)) + 1].layer.fmt \in {"wasm-module", "wasm-component"}

\* The indices the loader invocations of the current component resolved.
ResolvedIdx == {Unwrap(calls[c].idx) : c \in {k \in DOMAIN calls : calls[k].pc = "ok"}}

\* C1: a run that fails at any stage returns an error and nothing else: no
\* output layer and no manifest reach the caller, also when earlier
\* components were already rewritten and pushed; layers are only ever
\* returned by a run that succeeded.
C1_FailureReturnsNothing ==
    /\ pc = "failed" => result.status = "err" /\ result.layers = <<>>
    /\ result.status # "ok" => result.layers = <<>>
    /\ result.status = "ok" => pc = "done"

C1_Witness ==
    /\ pc = "failed"
    /\ Len(precompiled_layers) >= 1
    /\ locked_app[1].dependencies = NoDeps
    /\ OrigApp[1].dependencies # NoDeps

\* The bytes the pipeline is to emit for a component of the manifest: its
\* sources, each taken from the first layer carrying the digest, normalized,
\* composed and precompiled.
FirstBytes(o) == layers[MinOf(CarrierIdx(Unwrap(o))) + 1].layer
ExpectedCompiled(comp) ==
    PrecompileComponent(Compose(
        [c \in {"source"} \cup DOMAIN comp.dependencies |->
            ComponentizeIfNecessary(
                FirstBytes(IF c = "source" THEN comp.source.digest
                           ELSE comp.dependencies[c].source.digest))]))

AllDeclaredResolve ==
    \A i \in 1..Len(OrigApp) : \A d \in DeclaredDigests(OrigApp[i]) : CarrierIdx(d) # {}

AllSourcesLoad ==
    \A i \in 1..Len(OrigApp) :
        /\ IsSome(OrigApp[i].source.digest)
        /\ \A d \in DeclaredDigests(OrigApp[i]) : Normalizes(d)

SuccessShape ==
    /\ result.status = "ok"
    /\ Len(result.layers) = Len(OrigApp) + 1
    /\ \A i \in 1..Len(OrigApp) :
         /\ result.layers[i].media_type = OCI_LAYER_MEDIA_TYPE_WASM
         /\ result.layers[i].bytes = ExpectedCompiled(OrigApp[i])
    /\ result.layers[Len(OrigApp) + 1].media_type = SPIN_APPLICATION_MEDIA_TYPE

\* C2 as stated: when every declared digest of the manifest resolves within
\* the input layers and the engines (and the encoder) succeed, the run
\* succeeds with len(components) + 1 layers, the compiled components in
\* manifest order and the manifest layer last.
C2_Original ==
    (Decodable /\ AllDeclaredResolve /\ fault = NoFault /\ Terminated) => SuccessShape

\* C2 amended: the same, for manifests in which moreover every component
\* source has a digest field and every declared digest resolves to a layer
\* whose bytes normalize: such a run never fails, and when it has returned
\* it has the stated shape.
C2_SuccessShape ==
    (Decodable /\ AllSourcesLoad /\ fault = NoFault)
        => (pc # "failed" /\ (pc = "done" => SuccessShape))

C2_Witness ==
    /\ pc = "done"
    /\ Len(result.layers) = 3
    /\ OrigApp[2].dependencies # NoDeps
    /\ result.layers[1].bytes # result.layers[2].bytes

\* C3: the provenance set of a component is exactly what its own loader
\* resolved: empty until the first insert of that component, equal to the
\* indices of its successful invocations when the driver snapshots and pushes
\* it, and so, for every pushed component, the first carriers of the digests
\* that component itself declares, whatever other components read.
C3_ProvenanceIsOwnResolutions ==
    /\ (pc = "compose" /\ \A c \in DOMAIN calls : calls[c].pc \in {"idle", "lock", "err"})
          => parents = {}
    /\ pc \in {"clear", "push"} => snapshot = ResolvedIdx
    /\ (pc = "loop" /\ ci >= 1) => precompiled_layers[ci].parents = ResolvedIdx
    /\ \A i \in 1..ci :
          precompiled_layers[i].parents =
             {MinOf(CarrierIdx(d)) : d \in DeclaredDigests(OrigApp[i])}

C3_Witness ==
    /\ pc = "loop"
    /\ ci = 2
    /\ \E x \in precompiled_layers[1].parents : x \notin precompiled_layers[2].parents
    /\ precompiled_layers[2].parents # {}

\* A component that references a digest no input layer carries.
AbsentRef(comp) == \E d \in DeclaredDigests(comp) : CarrierIdx(d) = {}
HasAbsentRef == \E i \in 1..Len(OrigApp) : AbsentRef(OrigApp[i])
FirstAbsent == MinOf({i \in 1..Len(OrigApp) : AbsentRef(OrigApp[i])})

\* No failure other than the missing digest can come first: up to and
\* including the first component with an absent reference, every source has
\* a digest field, every digest that resolves normalizes, and the engines
\* reject nothing.
NothingElseFails ==
    /\ \A j \in 1..FirstAbsent :
         /\ IsSome(OrigApp[j].source.digest)
         /\ \A d \in DeclaredDigests(OrigApp[j]) : CarrierIdx(d) # {} => Normalizes(d)
    /\ ~(fault.stage \in {"compose", "precompile"} /\ fault.at < FirstAbsent)

\* C4 as stated: a component that references an absent digest makes the
\* whole call fail with DigestNotFound and return no layers.
C4_Original ==
    (Decodable /\ HasAbsentRef /\ Terminated)
        => (result.status = "err" /\ result.kind = "DigestNotFound"
            /\ result.layers = <<>>)

\* C4 amended: such a call never succeeds and returns no layers, however
\* many earlier components were pushed; the error is DigestNotFound, tagged
\* with the first such component, when no other failure can come first.
C4_AbsentDigestFails ==
    (Decodable /\ HasAbsentRef)
        => /\ pc # "done" /\ result.status # "ok" /\ result.layers = <<>>
           /\ (Terminated /\ NothingElseFails)
                 => /\ result.kind = "DigestNotFound"
                    /\ result.component = OrigApp[FirstAbsent].id

C4_Witness ==
    /\ pc = "failed"
    /\ result.kind = "DigestNotFound"
    /\ Len(precompiled_layers) >= 1
    /\ result.layers = <<>>

\* C5: in the manifest emitted by a successful run every component has no
\* dependency binding left and its source digest is the sha256 digest of the
\* compiled bytes of the output layer at the same position.
C5_ManifestRewritten ==
    pc = "done" =>
        LET last == result.layers[Len(result.layers)] IN
        /\ last.bytes.fmt = "json"
        /\ Len(last.bytes.doc) = Len(OrigApp)
        /\ \A i \in 1..Len(OrigApp) :
             /\ last.bytes.doc[i].dependencies = NoDeps
             /\ last.bytes.doc[i].source.digest =
                    Some(Sha256Digest(result.layers[i].bytes))

C5_Witness ==
    /\ pc = "done"
    /\ Len(OrigApp) = 2
    /\ OrigApp[1].dependencies # NoDeps
    /\ OrigApp[2].dependencies # NoDeps

\* C6: the locator returns the lowest index whose layer carries the manifest
\* tag, together with that layer, and nothing when no layer carries it; the
\* run ends with ManifestNotFound and no output exactly when no layer carries
\* the tag; no step changes the input list.
C6_LocatorState ==
    /\ FindSpinAppLayer(layers) =
          IF TaggedIdx = {} THEN None
          ELSE Some([idx |-> MinOf(TaggedIdx), layer |-> layers[MinOf(TaggedIdx) + 1]])
    /\ (pc # "locate" /\ TaggedIdx # {}) => locked_parent_idx = MinOf(TaggedIdx)
    /\ (pc # "locate" /\ TaggedIdx = {})
          => (pc = "failed" /\ result = [status |-> "err", layers |-> <<>>,
                                         kind |-> "ManifestNotFound",
                                         component |-> "none"])
    /\ result.kind = "ManifestNotFound" => TaggedIdx = {}

C6_LocatorFirstMatch == [](C6_LocatorState) /\ [][layers' = layers]_vars

C6_Witness ==
    /\ pc = "decode"
    /\ Cardinality(TaggedIdx) >= 2
    /\ locked_parent_idx >= 1
    /\ layers[locked_parent_idx + 1].layer # layers[Len(layers)].layer

\* C7: the provenance set of every component, while it is built and once it
\* is pushed, holds only indices of input layers, and once pushed it holds
\* the index of the layer each dependency binding of that component (as
\* declared in the input manifest) resolves to.
C7_ProvenanceInRange ==
    /\ parents \subseteq 0..(Len(layers) - 1)
    /\ \A i \in 1..ci :
         /\ precompiled_layers[i].parents \subseteq 0..(Len(layers) - 1)
         /\ \A d \in BindingDigests(OrigApp[i]) :
               MinOf(CarrierIdx(d)) \in precompiled_layers[i].parents

C7_Witness ==
    /\ ci >= 1
    /\ OrigApp[1].dependencies # NoDeps
    /\ locked_app[1].dependencies = NoDeps
    /\ Cardinality(precompiled_layers[1].parents) = 2
    /\ (Len(layers) - 1) \in precompiled_layers[1].parents

\* C8: at most one loader invocation is inside the insert at a time, and it
\* is the holder of the mutex; no insert is lost: every invocation that has
\* returned successfully has its index in the set, and when all invocations
\* have returned the set is exactly the indices resolved, one entry per layer.
C8_InsertsSerialized ==
    /\ Cardinality({c \in DOMAIN calls : calls[c].pc = "insert"}) <= 1
    /\ \A c \in DOMAIN calls : calls[c].pc = "insert" <=> mutex = c
    /\ pc = "compose" => ResolvedIdx \subseteq parents
    /\ (pc = "compose" /\ \A c \in DOMAIN calls : calls[c].pc \in {"ok", "err"})
          => parents = ResolvedIdx

C8_Witness ==
    /\ pc = "compose"
    /\ calls["source"].pc = "insert"
    /\ "libfoo" \in DOMAIN calls
    /\ calls["libfoo"].pc = "lock"
    /\ mutex = "source"

\* C9: the last layer of a successful run has the index the locator found as
\* its only parent, and its bytes decode to the manifest as it stands after
\* every component was rewritten.
C9_ManifestLayer ==
    pc = "done" =>
        LET last == result.layers[Len(result.layers)] IN
        /\ last.parents = {MinOf(TaggedIdx)}
        /\ last.media_type = SPIN_APPLICATION_MEDIA_TYPE
        /\ ci = Len(OrigApp)
        /\ Len(result.layers) = ci + 1
        /\ CanFromJson(last.bytes)
        /\ FromJson(last.bytes) = locked_app
        /\ \A i \in 1..ci : locked_app[i].id = OrigApp[i].id

C9_Witness ==
    /\ pc = "done"
    /\ MinOf(TaggedIdx) >= 1
    /\ Len(OrigApp) = 2
    /\ result.layers[1].parents # {MinOf(TaggedIdx)}

\* C10: a second run on the same layers with the same engines returns what
\* the first run returned - the same outcome, bytes, digests and provenance
\* sets - whatever the interleaving of the loader invocations in either run.
C10_SameResultTwice ==
    (run = 2 /\ Terminated) => result = first

C10_Witness ==
    /\ run = 2
    /\ pc = "done"
    /\ first.status = "ok"
    /\ Cardinality(result.layers[1].parents) = 2

\* The two-layer input of the scenario: a manifest layer whose only
\* component "main" binds "libfoo" to d1, then a layer with digest d1 that
\* holds a raw module; both engines and the encoder succeed.
ScenarioInput ==
    /\ Len(layers) = 2
    /\ layers[1].media_type = SPIN_APPLICATION_MEDIA_TYPE
    /\ layers[1].layer.fmt = "json"
    /\ Len(layers[1].layer.doc) = 1
    /\ layers[1].layer.doc[1].id = "main"
    /\ DOMAIN layers[1].layer.doc[1].dependencies = {"libfoo"}
    /\ layers[1].layer.doc[1].dependencies["libfoo"].source.digest = Some("sha256:d1")
    /\ layers[2].media_type # SPIN_APPLICATION_MEDIA_TYPE
    /\ layers[2].digest = "sha256:d1"
    /\ layers[2].layer.fmt = "wasm-module"
    /\ fault = NoFault

ScenarioOutcome ==
    /\ result.status = "ok"
    /\ Len(result.layers) = 2
    /\ result.layers[1].media_type = OCI_LAYER_MEDIA_TYPE_WASM
    /\ result.layers[1].parents = {1}
    /\ result.layers[2].media_type = SPIN_APPLICATION_MEDIA_TYPE
    /\ result.layers[2].parents = {0}
    /\ result.layers[2].bytes.fmt = "json"
    /\ Len(result.layers[2].bytes.doc) = 1
    /\ result.layers[2].bytes.doc[1].id = "main"
    /\ result.layers[2].bytes.doc[1].dependencies = NoDeps
    /\ result.layers[2].bytes.doc[1].source.digest =
          Some(Sha256Digest(result.layers[1].bytes))

\* C11 as stated: on the scenario input the run succeeds with the component
\* layer of "main" (provenance {1}) and the manifest layer (provenance {0}),
\* and the emitted "main" has no dependency and the digest of its compiled
\* bytes.
C11_Original ==
    (ScenarioInput /\ Terminated) => ScenarioOutcome

\* C11 amended: the same, when the source of "main" itself carries the digest
\* d1, so that the loader finds the component's own bytes in layer 1 too.
C11_Scenario ==
    (ScenarioInput /\ layers[1].layer.doc[1].source.digest = Some("sha256:d1"))
        => (pc # "failed" /\ (pc = "done" => ScenarioOutcome))

C11_Witness ==
    /\ ScenarioInput
    /\ layers[1].layer.doc[1].source.digest = Some("sha256:d1")
    /\ pc = "done"
    /\ result.layers[1].parents = {1}

\* C12: a failure of the composition of a component is tagged with the id of
\* the component the loop is at: the engine's rejection carries the id of the
\* component the engine rejects, after exactly the earlier components were
\* pushed, and every error raised by compose carries the id at the loop's
\* position in the input manifest.
ComposeStageKinds ==
    {"CompositionError", "MissingDigest", "DigestNotFound", "ComponentizeError"}

C12_ErrorTaggedWithComponent ==
    /\ result.kind \in ComposeStageKinds
          => /\ pc = "failed"
             /\ ci < Len(OrigApp)
             /\ result.component = OrigApp[ci + 1].id
             /\ Len(precompiled_layers) = ci
    /\ result.kind = "CompositionError"
          => /\ fault.stage = "compose"
             /\ ci = fault.at
             /\ result.component = ComponentIds[fault.at + 1]

C12_Witness ==
    /\ pc = "failed"
    /\ result.kind = "CompositionError"
    /\ ci = 1
    /\ result.component = "aux"
    /\ Len(precompiled_layers) = 1

\* The place of a stage in the order of a run: Locate, Decode, then for
\* component k (from 0) Load, Compose, Precompile, Rewrite, Emit, and Encode
\* in the place where the loads of a further component would begin.
StageRank(e) ==
    CASE e[1] = "Locate" -> 1
      [] e[1] = "Decode" -> 2
      [] e[1] = "Load" -> 3 + 5 * e[2]
      [] e[1] = "Encode" -> 3 + 5 * e[2]
      [] e[1] = "Compose" -> 4 + 5 * e[2]
      [] e[1] = "Precompile" -> 5 + 5 * e[2]
      [] e[1] = "Rewrite" -> 6 + 5 * e[2]
      [] e[1] = "Emit" -> 7 + 5 * e[2]

LastRank == IF stage_log = <<>> THEN 0 ELSE StageRank(stage_log[Len(stage_log)])

\* One step of a run, as far as the order of the stages goes.
StageStep ==
    /\ stage_log' # stage_log =>
         LET e == stage_log'[Len(stage_log')] IN
         /\ stage_log' = Append(stage_log, e)
         /\ \/ StageRank(e) = LastRank + 1
            \/ /\ e[1] = "Load"
               /\ stage_log # <<>>
               /\ stage_log[Len(stage_log)] = e
         /\ e[1] = "Load" =>
               /\ e[2] = ci
               /\ Len(precompiled_layers) = ci
               /\ ci < Len(locked_app)
         /\ e[1] = "Encode" =>
               /\ e[2] = Len(locked_app)
               /\ ci = Len(locked_app)
               /\ \A i \in 1..Len(locked_app) : locked_app[i].dependencies = NoDeps
    /\ calls' # calls => (pc \in {"loop", "compose"} /\ Len(precompiled_layers) = ci)
    /\ ci' # ci => (ci' = ci + 1 /\ stage_log'[Len(stage_log')] = <<"Emit", ci>>)
    /\ precompiled_layers' # precompiled_layers => stage_log' # stage_log

\* C13: every run goes through Locate, Decode, then per component in
\* manifest order Load, Compose, Precompile, Rewrite, Emit, then Encode: each
\* stage entered follows the one before it in this order (only Load repeats,
\* once per source), so no stage of a component runs twice, no load of
\* component k+1 precedes the Emit of component k, and Encode comes after
\* every component was rewritten.
C13_StageOrder == [][StageStep]_vars

C13_Witness ==
    /\ pc = "done"
    /\ Len(OrigApp) = 2
    /\ Len(stage_log) = 14
    /\ stage_log[8] = <<"Load", 1>>
    /\ stage_log[9] = <<"Load", 1>>

\* One step of a run, as far as the loader's writes to the provenance set
\* go: an invocation that ends in an error leaves the set as it was, and the
\* set only changes by the index of an invocation that returns its bytes.
LoaderStep ==
    pc = "compose" =>
        /\ \A c \in DOMAIN calls :
              (calls[c].pc # "err" /\ calls'[c].pc = "err")
                 => /\ parents' = parents
                    /\ calls'[c].bytes = None
                    /\ calls'[c].err \in {"MissingDigest", "DigestNotFound",
                                          "ComponentizeError"}
        /\ parents' # parents
              => \E c \in DOMAIN calls :
                    /\ calls[c].pc # "ok"
                    /\ calls'[c].pc = "ok"
                    /\ IsSome(calls'[c].bytes)
                    /\ parents' = parents \cup {Unwrap(calls'[c].idx)}

\* C14: the provenance set holds only indices of invocations that returned
\* bytes; an invocation that fails for a missing digest field, an unknown
\* digest or a layer that does not normalize does not change the set.
C14_InsertOnlyOnSuccess ==
    /\ [](pc = "compose" => parents \subseteq ResolvedIdx)
    /\ [][LoaderStep]_vars

C14_Witness ==
    /\ pc = "compose"
    /\ "libfoo" \in DOMAIN calls
    /\ calls["libfoo"].err = "ComponentizeError"
    /\ calls["source"].pc = "ok"
    /\ parents = {Unwrap(calls["source"].idx)}
    /\ CarrierIdx("sha256:d2") # {}
    /\ MinOf(CarrierIdx("sha256:d2")) \notin parents

\* An index that is the lowest one among the layers carrying its digest.
IsLowestCarrier(x) == x = MinOf(CarrierIdx(layers[x + 1].digest))

\* C15: of several layers with one digest the lookup returns the lowest
\* index and that layer; an invocation that resolved a digest holds that
\* index and the normalized bytes of that layer, and no provenance set, of
\* the current loader or of a pushed component, holds a higher duplicate.
C15_LowestDuplicateWins ==
    /\ \A d \in InputDigests :
          FindLayerByDigest(layers, d) =
             IF CarrierIdx(d) = {} THEN None
             ELSE Some([idx |-> MinOf(CarrierIdx(d)),
                        layer |-> layers[MinOf(CarrierIdx(d)) + 1]])
    /\ \A c \in DOMAIN calls :
          IsSome(calls[c].idx) =>
             /\ Unwrap(calls[c].idx) = MinOf(CarrierIdx(Unwrap(calls[c].source.digest)))
             /\ calls[c].bytes =
                   Some(ComponentizeIfNecessary(layers[Unwrap(calls[c].idx) + 1].layer))
    /\ \A x \in parents : IsLowestCarrier(x)
    /\ \A i \in 1..ci : \A x \in precompiled_layers[i].parents : IsLowestCarrier(x)

C15_Witness ==
    /\ pc = "compose"
    /\ "libfoo" \in DOMAIN calls
    /\ calls["libfoo"].pc = "ok"
    /\ Cardinality(CarrierIdx("sha256:d2")) = 2
    /\ \E i, j \in CarrierIdx("sha256:d2") :
          i < j /\ layers[i + 1].layer # layers[j + 1].layer
    /\ parents = {MinOf(CarrierIdx("sha256:d2"))}

\* The mutex of the provenance set is held by the loader invocation that is
\* inside its insert, by the driver inside its snapshot, or by nobody; the
\* holder can always take the step that releases it, so whoever waits for
\* the mutex can get it; the driver locks only after compose returned with
\* every invocation done, and what it cloned is the set as it stays.
LockState ==
    /\ mutex = "driver" <=> pc = "snapshot"
    /\ mutex = "driver" => ENABLED SnapshotParents
    /\ mutex \notin {"free", "driver"}
          => /\ pc = "compose"
             /\ mutex \in DOMAIN calls
             /\ calls[mutex].pc = "insert"
             /\ ENABLED LoadInsert(mutex)
    /\ (pc = "compose" /\ mutex = "free")
          => \A c \in DOMAIN calls : calls[c].pc = "lock" => ENABLED LoadLock(c)
    /\ pc = "parents" => (mutex = "free" /\ ENABLED SnapshotLock)
    /\ pc \in {"parents", "snapshot"}
          => /\ IsSome(composed)
             /\ \A c \in DOMAIN calls : calls[c].pc = "ok"
             /\ parents = ResolvedIdx
    /\ pc \in {"clear", "push"} => snapshot = parents
    /\ Terminated => mutex = "free"

\* One step of a run, as far as the mutex goes: it passes from free to one
\* holder and back, the holder's own next step is the insert or the clone
\* that releases it, and the set does not change once compose has returned.
LockStep ==
    /\ mutex # "free" => mutex' \in {mutex, "free"}
    /\ (mutex \notin {"free", "driver"} /\ calls'[mutex] # calls[mutex])
          => (mutex' = "free" /\ parents' = parents \cup {Unwrap(calls[mutex].idx)})
    /\ (mutex = "driver" /\ pc' # pc)
          => (mutex' = "free" /\ snapshot' = parents /\ parents' = parents)
    /\ pc \in {"precompile", "digest", "parents", "snapshot", "clear", "push"}
          => parents' = parents

\* C16: the lock is held for one insert or one snapshot only and never while
\* the driver awaits compose, nobody can wait for it forever, and the
\* snapshot, taken after compose returned, is the final content of the set.
C16_LockHeldBriefly == [](LockState) /\ [][LockStep]_vars

C16_Witness ==
    /\ pc = "clear"
    /\ mutex = "free"
    /\ Cardinality(snapshot) = 2
    /\ snapshot = parents

====
